---- MODULE Spec2Model ----
(***************************************************************************)
(* Model of services/catarata-api.ts: the cataract-detection API client.   *)
(*                                                                         *)
(* predictWithRetry is modelled as one sequential async process whose      *)
(* program counter pc stops at every await of the source (image encoding,  *)
(* the POST, the reading of the response body, the backoff timer).         *)
(* checkApiHealth is an independent async call.  The presentation helpers  *)
(* getPredictionMessage and getRecommendation are pure operators applied   *)
(* to the result predictWithRetry returned.                                *)
(*                                                                         *)
(* Texts are sequences of strings (the pieces a template literal joins),   *)
(* written in ASCII: accents and emoji of the source's literals are left   *)
(* out.                                                                    *)
(* Errors are records [kind, status, detail, msg]; status = 0, detail = "" *)
(* and msg = <<>> stand for an absent field.                               *)
(***************************************************************************)
EXTENDS Integers, Sequences, FiniteSets, TLC

VARIABLES
    pc,           \* position of predictWithRetry
    platform,     \* Platform.OS
    argOmitted,   \* TRUE when the maxRetries argument was not passed
    maxRetries,   \* the parameter, after its default
    attempt,      \* loop variable
    lastError,    \* let lastError
    err,          \* the value travelling from a throw to the catch
    response,     \* the Response of the current POST
    result,       \* the value predictWithRetry returned
    thrown,       \* the value predictWithRetry threw
    timer,        \* ms left on the pending setTimeout
    inFlight,     \* POST requests sent and not yet answered
    nAttempts,    \* history: predictFromBase64 invocations
    nEncodes,     \* history: imageUriToBase64 invocations
    nPosts,       \* history: POST requests sent
    nBackoffs,    \* history: backoff timers armed
    elapsed,      \* history: ms waited since the last attempt ended
    startLog,     \* history: for each attempt started, the ms waited before it
    attemptLog,   \* history: outcome of each finished attempt
    hpc,          \* position of checkApiHealth
    hNet,         \* what the GET met
    hResult,      \* what checkApiHealth returned
    hThrew,       \* TRUE if checkApiHealth threw
    shown,        \* TRUE once the helpers were applied to the result
    tArg,         \* the translator passed to the helpers
    message,      \* getPredictionMessage's return value
    recommendation \* getRecommendation's return value

retryVars == <<pc, platform, argOmitted, maxRetries, attempt, lastError, err,
               response, result, thrown, timer, inFlight, nAttempts, nEncodes,
               nPosts, nBackoffs, elapsed, startLog, attemptLog>>
healthVars == <<hpc, hNet, hResult, hThrew>>
helperVars == <<shown, tArg, message, recommendation>>
vars == <<retryVars, healthVars, helperVars>>

----------------------------------------------------------------------------
(* Bounds and program constants *)

MaxRetriesBound == 3

DefaultMaxRetries == 3

BaseDelay == 1000

RetryArgs == {0 - 1, 0} \cup (1 .. MaxRetriesBound)

Platforms == {"web", "native"}

OkStatuses == {200, 201}

ErrStatuses == {404, 500}

ServerDetail == "Imagem invalida"

FallbackDetail == "Erro desconhecido na API"

GenericMessage == "Falha ao enviar para analise apos multiplas tentativas"

----------------------------------------------------------------------------
(* Values *)

NoError == [kind |-> "undefined", status |-> 0, detail |-> "", msg |-> <<>>]

NoResult == [prediction |-> "none", confidence |-> 0, class_index |-> 0,
             message |-> ""]

NoResponse == [status |-> 0, body |-> "none", payload |-> NoResult]

NoText == <<>>

\* confidence is kept in 1/10000 (0.9876 is 9876)
PredictionResults ==
    { [prediction |-> "normal", confidence |-> 9876, class_index |-> 0,
       message |-> "ok"],
      [prediction |-> "normal", confidence |-> 5004, class_index |-> 0,
       message |-> "ok"],
      [prediction |-> "catarata", confidence |-> 9876, class_index |-> 1,
       message |-> "ok"],
      [prediction |-> "catarata", confidence |-> 10000, class_index |-> 1,
       message |-> "ok"] }

\* what the body of a non-2xx response can be
ErrBodies == {"detail", "emptyDetail", "noDetail", "null", "notJson"}

\* what the body of a 2xx response can be
OkBodies == {"prediction", "notJson"}

\* what can make the reading of the image fail
EncodeCauses(os) ==
    IF os = "web" THEN {"fetch failed", "FileReader error"}
    ELSE {"readAsStringAsync failed"}

\* JavaScript truthiness of a thrown value: every object is truthy,
\* the initial undefined of lastError is not
Truthy(e) == e.kind # "undefined"

\* new Error(message)
NewError(m) == [kind |-> "Error", status |-> 0, detail |-> "", msg |-> m]

\* fetch rejecting (network unreachable)
NetworkError ==
    [kind |-> "TypeError", status |-> 0, detail |-> "",
     msg |-> <<"Network request failed">>]

\* response.json() rejecting on a body that is not JSON
JsonSyntaxError ==
    [kind |-> "SyntaxError", status |-> 0, detail |-> "",
     msg |-> <<"Unexpected token in JSON">>]

\* error.detail evaluated on a parsed null
NullDetailError ==
    [kind |-> "TypeError", status |-> 0, detail |-> "",
     msg |-> <<"Cannot read properties of null">>]

\* response.ok
ResponseOk(status) == status >= 200 /\ status <= 299

----------------------------------------------------------------------------
(* imageUriToBase64 and imageUriToBase64Web *)

\* The error imageUriToBase64Web throws for a failing cause.  A failing
\* fetch or blob() is caught by its try and wrapped; a FileReader error
\* rejects the promise the function returned without awaiting, so it leaves
\* the function unwrapped.
imageUriToBase64Web(cause) ==
    IF cause = "fetch failed"
      THEN NewError(<<"Erro ao converter imagem web para base64", cause>>)
      ELSE NewError(<<cause>>)

\* The error imageUriToBase64 throws for a failing cause: whatever was
\* thrown inside its try, wrapped in a new Error.
imageUriToBase64(os, cause) ==
    IF os = "web"
      THEN NewError(<<"Erro ao converter imagem para base64">>
                    \o imageUriToBase64Web(cause).msg)
      ELSE NewError(<<"Erro ao converter imagem para base64", cause>>)

----------------------------------------------------------------------------
(* predictFromBase64: the non-2xx branch *)

\* error.detail of the parsed body ("" is absent or empty: both falsy)
BodyDetail(body) == IF body = "detail" THEN ServerDetail ELSE ""

\* error.detail || 'Erro desconhecido na API'
DetailOrFallback(d) == IF d # "" THEN d ELSE FallbackDetail

\* what predictFromBase64 throws on a non-2xx response
ApiErrorOf(resp) ==
    CASE resp.body = "notJson" -> JsonSyntaxError
      [] resp.body = "null"    -> NullDetailError
      [] OTHER -> [kind |-> "ApiError", status |-> resp.status,
                   detail |-> DetailOrFallback(BodyDetail(resp.body)),
                   msg |-> <<>>]

----------------------------------------------------------------------------
(* predictWithRetry: the pure parts *)

\* maxRetries: number = 3
DefaultArg(omitted, arg) == IF omitted THEN DefaultMaxRetries ELSE arg

\* faulty variant: the loop runs one attempt too many
LoopGuard_OffByOne(a, m) == a <= m + 1

\* attempt <= maxRetries
LoopGuard(a, m) == a <= m

\* attempt < maxRetries
ShouldBackoff(a, m) == a < m

\* faulty variant: the exponent is the attempt number
BackoffDelay_Doubled(a) == BaseDelay * 2 ^ a

\* 1000 * Math.pow(2, attempt - 1)
BackoffDelay(a) == BaseDelay * 2 ^ (a - 1)

\* faulty variant: only the first error is remembered
CatchError_KeepFirst(last, e) == IF Truthy(last) THEN last ELSE e

\* lastError = error
CatchError(last, e) == e

\* faulty variant: the remembered error is dropped for the generic one
ThrowValue_AlwaysGeneric(last) == NewError(<<GenericMessage>>)

\* lastError || new Error('Falha ao enviar ...')
ThrowValue(last) == IF Truthy(last) THEN last ELSE NewError(<<GenericMessage>>)

\* faulty variant: the timer promise is not awaited to its end
TimerExpired_Early(t) == TRUE

\* setTimeout(resolve, delay) resolves once the delay has run out
TimerExpired(t) == t = 0

----------------------------------------------------------------------------
(* predictWithRetry and, inside it, predictFromBase64 *)

Init ==
    /\ pc = "idle"
    /\ platform = "native"
    /\ argOmitted = FALSE
    /\ maxRetries = 0
    /\ attempt = 0
    /\ lastError = NoError
    /\ err = NoError
    /\ response = NoResponse
    /\ result = NoResult
    /\ thrown = NoError
    /\ timer = 0
    /\ inFlight = 0
    /\ nAttempts = 0
    /\ nEncodes = 0
    /\ nPosts = 0
    /\ nBackoffs = 0
    /\ elapsed = 0
    /\ startLog = <<>>
    /\ attemptLog = <<>>
    /\ hpc = "idle"
    /\ hNet = 0
    /\ hResult = FALSE
    /\ hThrew = FALSE
    /\ shown = FALSE
    /\ tArg = "none"
    /\ message = NoText
    /\ recommendation = NoText

\* predictWithRetry(imageUri, maxRetries = 3): the call, up to the loop
Call ==
    /\ pc = "idle"
    /\ \E os \in Platforms, omitted \in BOOLEAN, arg \in RetryArgs :
         /\ omitted => arg = 0
         /\ platform' = os
         /\ argOmitted' = omitted
         /\ maxRetries' = DefaultArg(omitted, arg)
    /\ attempt' = 1
    /\ lastError' = NoError
    /\ pc' = "loop"
    /\ UNCHANGED <<err, response, result, thrown, timer, inFlight, nAttempts,
                   nEncodes, nPosts, nBackoffs, elapsed, startLog, attemptLog>>
    /\ UNCHANGED <<healthVars, helperVars>>

\* the loop test passes: the attempt enters predictFromBase64, which calls
\* imageUriToBase64 and awaits it
StartAttempt ==
    /\ pc = "loop"
    /\ LoopGuard(attempt, maxRetries)
    /\ nAttempts' = nAttempts + 1
    /\ nEncodes' = nEncodes + 1
    /\ startLog' = Append(startLog, [attempt |-> attempt, waited |-> elapsed,
                                     pending |-> timer, inFlight |-> inFlight])
    /\ elapsed' = 0
    /\ response' = NoResponse
    /\ err' = NoError
    /\ pc' = "encode"
    /\ UNCHANGED <<platform, argOmitted, maxRetries, attempt, lastError, result,
                   thrown, timer, inFlight, nPosts, nBackoffs, attemptLog>>
    /\ UNCHANGED <<healthVars, helperVars>>

\* the loop test fails: throw lastError || new Error(...)
Exhausted ==
    /\ pc = "loop"
    /\ ~LoopGuard(attempt, maxRetries)
    /\ thrown' = ThrowValue(lastError)
    /\ pc' = "thrown"
    /\ UNCHANGED <<platform, argOmitted, maxRetries, attempt, lastError, err,
                   response, result, timer, inFlight, nAttempts, nEncodes,
                   nPosts, nBackoffs, elapsed, startLog, attemptLog>>
    /\ UNCHANGED <<healthVars, helperVars>>

\* imageUriToBase64 resolves: the POST is sent
EncodeOk ==
    /\ pc = "encode"
    /\ nPosts' = nPosts + 1
    /\ inFlight' = inFlight + 1
    /\ pc' = "post"
    /\ UNCHANGED <<platform, argOmitted, maxRetries, attempt, lastError, err,
                   response, result, thrown, timer, nAttempts, nEncodes,
                   nBackoffs, elapsed, startLog, attemptLog>>
    /\ UNCHANGED <<healthVars, helperVars>>

\* imageUriToBase64 throws; predictFromBase64 logs and rethrows
EncodeFail ==
    /\ pc = "encode"
    /\ \E cause \in EncodeCauses(platform) :
         err' = imageUriToBase64(platform, cause)
    /\ pc' = "catch"
    /\ UNCHANGED <<platform, argOmitted, maxRetries, attempt, lastError,
                   response, result, thrown, timer, inFlight, nAttempts,
                   nEncodes, nPosts, nBackoffs, elapsed, startLog, attemptLog>>
    /\ UNCHANGED <<healthVars, helperVars>>

\* fetch rejects; predictFromBase64 logs and rethrows
PostFail ==
    /\ pc = "post"
    /\ inFlight' = inFlight - 1
    /\ err' = NetworkError
    /\ pc' = "catch"
    /\ UNCHANGED <<platform, argOmitted, maxRetries, attempt, lastError,
                   response, result, thrown, timer, nAttempts, nEncodes,
                   nPosts, nBackoffs, elapsed, startLog, attemptLog>>
    /\ UNCHANGED <<healthVars, helperVars>>

\* fetch resolves with a response; its body is then awaited
PostResponse ==
    /\ pc = "post"
    /\ inFlight' = inFlight - 1
    /\ \/ \E st \in OkStatuses, b \in OkBodies, r \in PredictionResults :
            /\ b # "prediction" => r.prediction = "normal" /\ r.confidence = 9876
            /\ response' = [status |-> st, body |-> b,
                            payload |-> IF b = "prediction" THEN r ELSE NoResult]
       \/ \E st \in ErrStatuses, b \in ErrBodies :
            response' = [status |-> st, body |-> b, payload |-> NoResult]
    /\ pc' = IF ResponseOk(response'.status) THEN "okbody" ELSE "errbody"
    /\ UNCHANGED <<platform, argOmitted, maxRetries, attempt, lastError, err,
                   result, thrown, timer, nAttempts, nEncodes, nPosts,
                   nBackoffs, elapsed, startLog, attemptLog>>
    /\ UNCHANGED <<healthVars, helperVars>>

\* !response.ok: the body is parsed and the error thrown, logged, rethrown
ErrorBody ==
    /\ pc = "errbody"
    /\ err' = ApiErrorOf(response)
    /\ pc' = "catch"
    /\ UNCHANGED <<platform, argOmitted, maxRetries, attempt, lastError,
                   response, result, thrown, timer, inFlight, nAttempts,
                   nEncodes, nPosts, nBackoffs, elapsed, startLog, attemptLog>>
    /\ UNCHANGED <<healthVars, helperVars>>

\* response.ok: the body is parsed; predictFromBase64 returns it and
\* predictWithRetry returns it in turn, or the parse throws
SuccessBody ==
    /\ pc = "okbody"
    /\ IF response.body = "notJson"
         THEN /\ err' = JsonSyntaxError
              /\ pc' = "catch"
              /\ UNCHANGED <<result, attemptLog>>
         ELSE /\ result' = response.payload
              /\ attemptLog' = Append(attemptLog,
                                      [attempt |-> attempt, ok |-> TRUE,
                                       err |-> NoError])
              /\ pc' = "returned"
              /\ UNCHANGED err
    /\ UNCHANGED <<platform, argOmitted, maxRetries, attempt, lastError,
                   response, thrown, timer, inFlight, nAttempts, nEncodes,
                   nPosts, nBackoffs, elapsed, startLog>>
    /\ UNCHANGED <<healthVars, helperVars>>

\* faulty variant: a client error (4xx) is rethrown at once instead of retried
Catch_NoRetryOnClientError ==
    /\ pc = "catch"
    /\ lastError' = err
    /\ attemptLog' = Append(attemptLog, [attempt |-> attempt, ok |-> FALSE,
                                         err |-> err])
    /\ IF err.kind = "ApiError" /\ err.status < 500
         THEN /\ attempt' = maxRetries + 1
              /\ pc' = "loop"
              /\ UNCHANGED <<timer, nBackoffs>>
         ELSE IF attempt < maxRetries
           THEN /\ timer' = BackoffDelay(attempt)
                /\ nBackoffs' = nBackoffs + 1
                /\ pc' = "backoff"
                /\ UNCHANGED attempt
           ELSE /\ attempt' = attempt + 1
                /\ pc' = "loop"
                /\ UNCHANGED <<timer, nBackoffs>>
    /\ UNCHANGED <<platform, argOmitted, maxRetries, err, response, result,
                   thrown, inFlight, nAttempts, nEncodes, nPosts, elapsed,
                   startLog>>
    /\ UNCHANGED <<healthVars, helperVars>>

\* the catch block of predictWithRetry: remember the error, arm the backoff
\* timer and await it when attempts remain, else go round the loop
Catch ==
    /\ pc = "catch"
    /\ lastError' = CatchError(lastError, err)
    /\ attemptLog' = Append(attemptLog, [attempt |-> attempt, ok |-> FALSE,
                                         err |-> err])
    /\ IF ShouldBackoff(attempt, maxRetries)
         THEN /\ timer' = BackoffDelay(attempt)
              /\ nBackoffs' = nBackoffs + 1
              /\ pc' = "backoff"
              /\ UNCHANGED attempt
         ELSE /\ attempt' = attempt + 1
              /\ pc' = "loop"
              /\ UNCHANGED <<timer, nBackoffs>>
    /\ UNCHANGED <<platform, argOmitted, maxRetries, err, response, result,
                   thrown, inFlight, nAttempts, nEncodes, nPosts, elapsed,
                   startLog>>
    /\ UNCHANGED <<healthVars, helperVars>>

\* time passes while the backoff timer is pending
Tick ==
    /\ pc = "backoff"
    /\ timer > 0
    /\ timer' = timer - BaseDelay
    /\ elapsed' = elapsed + BaseDelay
    /\ UNCHANGED <<pc, platform, argOmitted, maxRetries, attempt, lastError,
                   err, response, result, thrown, inFlight, nAttempts,
                   nEncodes, nPosts, nBackoffs, startLog, attemptLog>>
    /\ UNCHANGED <<healthVars, helperVars>>

\* the timer fires: the await resumes and the loop increments attempt
TimerFire ==
    /\ pc = "backoff"
    /\ TimerExpired(timer)
    /\ attempt' = attempt + 1
    /\ pc' = "loop"
    /\ UNCHANGED <<platform, argOmitted, maxRetries, lastError, err, response,
                   result, thrown, timer, inFlight, nAttempts, nEncodes,
                   nPosts, nBackoffs, elapsed, startLog, attemptLog>>
    /\ UNCHANGED <<healthVars, helperVars>>

----------------------------------------------------------------------------
(* checkApiHealth *)

\* what the GET can meet: 0 is a rejected fetch, otherwise the status
HealthNets == {0, 200, 299, 300, 404}

\* faulty variant: the rejection of the GET is not caught
checkApiHealth_NoCatch(net) ==
    IF net = 0 THEN [threw |-> TRUE, value |-> FALSE]
    ELSE [threw |-> FALSE, value |-> ResponseOk(net)]

\* the value checkApiHealth produces: response.ok, or false from the catch
checkApiHealth(net) ==
    IF net = 0 THEN [threw |-> FALSE, value |-> FALSE]
    ELSE [threw |-> FALSE, value |-> ResponseOk(net)]

\* checkApiHealth is called and awaits the GET
HealthCall ==
    /\ hpc = "idle"
    /\ hpc' = "fetching"
    /\ UNCHANGED <<hNet, hResult, hThrew>>
    /\ UNCHANGED <<retryVars, helperVars>>

\* the GET settles and checkApiHealth completes
HealthSettle ==
    /\ hpc = "fetching"
    /\ \E net \in HealthNets :
         /\ hNet' = net
         /\ hResult' = checkApiHealth(net).value
         /\ hThrew' = checkApiHealth(net).threw
    /\ hpc' = "done"
    /\ UNCHANGED <<retryVars, helperVars>>

----------------------------------------------------------------------------
(* Presentation helpers *)

DigitStr == <<"0", "1", "2", "3", "4", "5", "6", "7", "8", "9">>

RECURSIVE Digits(_)
\* the decimal digits of a natural number
Digits(n) ==
    IF n < 10 THEN <<DigitStr[n + 1]>>
    ELSE Digits(n \div 10) \o <<DigitStr[(n % 10) + 1]>>

\* (confidence * 100).toFixed(1), confidence given in 1/10000
ToFixed1(c) ==
    LET tenths == (c + 5) \div 10
    IN  Digits(tenths \div 10) \o <<".", DigitStr[(tenths % 10) + 1]>>

getPredictionMessage(prediction) ==
    IF prediction.prediction = "normal"
      THEN <<"Nenhum sinal de catarata detectado", "\n">>
           \o ToFixed1(prediction.confidence) \o <<"% de confianca">>
      ELSE <<"Possivel sinal de catarata detectado", "\n", "Confidencia: ">>
           \o ToFixed1(prediction.confidence) \o <<"%">>

\* the translators a caller may inject; "none" is no translator
TranslatorArgs == {"none", "en", "es"}

TranslationKeys == {"analise_recomendacao_normal", "analise_recomendacao_urgente"}

\* t(key) of the injected translator named lang
Translate(lang, key) ==
    CASE lang = "en" /\ key = "analise_recomendacao_normal" ->
           <<"Keep monitoring your eyes regularly.">>
      [] lang = "en" /\ key = "analise_recomendacao_urgente" ->
           <<"Please see an ophthalmologist.">>
      [] lang = "es" /\ key = "analise_recomendacao_normal" ->
           <<"Siga controlando sus ojos con regularidad.">>
      [] lang = "es" /\ key = "analise_recomendacao_urgente" ->
           <<"Consulte a un oftalmologo.">>

\* faulty variant: the translator is ignored
getRecommendation_NoTranslator(prediction, t) ==
    IF prediction.prediction = "normal"
      THEN <<"Continue monitorando regularmente seus olhos com exames periodicos.">>
      ELSE <<"Recomendamos que voce consulte um oftalmologista para uma avaliacao mais detalhada.">>

getRecommendation(prediction, t) ==
    IF t # "none"
      THEN IF prediction.prediction = "normal"
             THEN Translate(t, "analise_recomendacao_normal")
             ELSE Translate(t, "analise_recomendacao_urgente")
      ELSE IF prediction.prediction = "normal"
             THEN <<"Continue monitorando regularmente seus olhos com exames periodicos.">>
             ELSE <<"Recomendamos que voce consulte um oftalmologista para uma avaliacao mais detalhada.">>

\* the caller renders the result predictWithRetry returned, passing its
\* translator (if it has one) to the helpers
ShowResult ==
    /\ pc = "returned"
    /\ ~shown
    /\ \E t \in TranslatorArgs :
         /\ tArg' = t
         /\ message' = getPredictionMessage(result)
         /\ recommendation' = getRecommendation(result, t)
    /\ shown' = TRUE
    /\ UNCHANGED <<retryVars, healthVars>>

----------------------------------------------------------------------------

Next ==
    \/ Call
    \/ StartAttempt
    \/ Exhausted
    \/ EncodeOk
    \/ EncodeFail
    \/ PostFail
    \/ PostResponse
    \/ ErrorBody
    \/ SuccessBody
    \/ Catch
    \/ Tick
    \/ TimerFire
    \/ HealthCall
    \/ HealthSettle
    \/ ShowResult

Spec == Init /\ [][Next]_vars

----------------------------------------------------------------------------
(* Properties *)

Max0(m) == IF m < 0 THEN 0 ELSE m

Finished == pc \in {"returned", "thrown"}

TheGenericError ==
    [kind |-> "Error", status |-> 0, detail |-> "",
     msg |-> <<"Falha ao enviar para analise apos multiplas tentativas">>]

PortugueseRecommendation(p) ==
    IF p.prediction = "normal"
      THEN <<"Continue monitorando regularmente seus olhos com exames periodicos.">>
      ELSE <<"Recomendamos que voce consulte um oftalmologista para uma avaliacao mais detalhada.">>

PortugueseHeadline(p) ==
    IF p.prediction = "normal"
      THEN "Nenhum sinal de catarata detectado"
      ELSE "Possivel sinal de catarata detectado"

\* C1: the number of predictFromBase64 invocations, and of POST requests,
\* never exceeds maxRetries (a count is never below zero, so for a negative
\* maxRetries the limit is zero; 3 when the argument is omitted), and no
\* attempt is started after an attempt succeeded or after attempt number
\* maxRetries failed.
C1_AttemptsBounded ==
    /\ nAttempts <= Max0(maxRetries)
    /\ nPosts <= nAttempts
    /\ argOmitted => nAttempts <= 3
    /\ \A i \in DOMAIN attemptLog :
         (attemptLog[i].ok \/ attemptLog[i].attempt = maxRetries)
           => /\ i = Len(attemptLog)
              /\ Len(startLog) = i

C1_Witness ==
    /\ pc = "thrown"
    /\ argOmitted
    /\ nAttempts = 3
    /\ nPosts = 3

\* C2: with maxRetries >= 1 the outcome is the outcome of the last attempt:
\* a return hands back, unmodified, the PredictionResult parsed from the 2xx
\* response of the first attempt that succeeded; a throw after maxRetries
\* failed attempts throws the error of attempt number maxRetries itself, not
\* an earlier one and not the generic error.
C2_OutcomeOfLastAttempt ==
    /\ pc = "returned" =>
         LET k == Len(attemptLog) IN
           /\ k >= 1 /\ k <= maxRetries
           /\ attemptLog[k].ok /\ attemptLog[k].attempt = k
           /\ \A j \in 1 .. (k - 1) : ~attemptLog[j].ok
           /\ ResponseOk(response.status)
           /\ result = response.payload
           /\ result \in PredictionResults
    /\ (pc = "thrown" /\ maxRetries >= 1) =>
         /\ Len(attemptLog) = maxRetries
         /\ \A j \in 1 .. maxRetries : ~attemptLog[j].ok
         /\ attemptLog[maxRetries].attempt = maxRetries
         /\ thrown = attemptLog[maxRetries].err
         /\ thrown # TheGenericError

C2_Witness ==
    /\ pc = "thrown"
    /\ maxRetries = 3
    /\ attemptLog[1].err.kind = "ApiError"
    /\ attemptLog[2].err.kind = "Error"
    /\ attemptLog[3].err.kind = "TypeError"
    /\ thrown.kind = "TypeError"

\* C3: the delay waited before attempt N is 1000 * 2^(N-2) ms for N >= 2 and
\* nothing before attempt 1; no timer is armed or waited for after the final
\* failed attempt or after a successful attempt.
C3_BackoffDelay ==
    /\ \A i \in DOMAIN startLog :
         /\ startLog[i].attempt = i
         /\ startLog[i].waited = IF i = 1 THEN 0 ELSE 1000 * 2 ^ (i - 2)
    /\ Finished =>
         /\ elapsed = 0
         /\ timer = 0
         /\ nBackoffs = Max0(nAttempts - 1)

C3_Witness ==
    /\ Len(startLog) = 3
    /\ startLog[2].waited = 1000
    /\ startLog[3].waited = 2000
    /\ pc = "thrown"

\* C4: for every non-2xx response the error predictFromBase64 throws carries
\* the response status and, as detail, the server's detail text or the
\* fallback string, also when the body has no detail or is not JSON.
C4_ApiErrorForEveryNon2xx ==
    (pc = "catch" /\ response.status # 0 /\ ~ResponseOk(response.status)) =>
        /\ err.kind = "ApiError"
        /\ err.status = response.status
        /\ err.detail = IF response.body = "detail"
                          THEN "Imagem invalida"
                          ELSE "Erro desconhecido na API"

\* C5: checkApiHealth never throws; it returns false when the GET rejects
\* and otherwise true exactly for a 2xx status.
C5_HealthNeverThrows ==
    hpc = "done" =>
        /\ ~hThrew
        /\ hNet = 0 => hResult = FALSE
        /\ hNet # 0 => hResult = (hNet \in 200 .. 299)

C5_Witness ==
    /\ hpc = "done"
    /\ hNet = 0
    /\ hResult = FALSE
    /\ ~hThrew

IsEncodingError(e) ==
    /\ e.kind = "Error"
    /\ Len(e.msg) >= 2
    /\ e.msg[1] = "Erro ao converter imagem para base64"

IsApiError(e) ==
    /\ e.kind = "ApiError"
    /\ e.status > 0
    /\ e.detail # ""

\* C6: every error predictFromBase64 fails with, and so every error
\* predictWithRetry fails with when maxRetries >= 1, is an EncodingError
\* wrapping its cause or an ApiError with a status and a detail.
C6_OnlyEncodingOrApiErrors ==
    /\ pc = "catch" => (IsEncodingError(err) \/ IsApiError(err))
    /\ (pc = "thrown" /\ maxRetries >= 1) =>
         (IsEncodingError(thrown) \/ IsApiError(thrown))

\* C7: retries are strictly sequential: at most one POST is in flight, none
\* during the backoff wait, at most one attempt is unfinished, and attempt
\* N+1 starts only once attempt N has failed and the backoff timer armed
\* after it has run out.
C7_Sequential ==
    /\ inFlight <= 1
    /\ inFlight = 1 => pc = "post"
    /\ Len(startLog) - Len(attemptLog) \in {0, 1}
    /\ pc \in {"backoff", "loop"} => Len(startLog) = Len(attemptLog)
    /\ \A i \in DOMAIN startLog :
         /\ startLog[i].inFlight = 0
         /\ startLog[i].pending = 0
         /\ i > 1 => /\ ~attemptLog[i - 1].ok
                     /\ startLog[i].waited > 0

C7_Witness ==
    /\ pc = "post"
    /\ attempt = 2
    /\ inFlight = 1
    /\ startLog[2].waited = 1000

\* C8 as stated: with a translator supplied, both the status message and the
\* recommendation are texts produced by the translator; without one both
\* are the hardcoded Portuguese texts.
C8_BothHelpersTranslate ==
    shown =>
        IF tArg # "none"
          THEN /\ message \in {Translate(tArg, k) : k \in TranslationKeys}
               /\ recommendation \in {Translate(tArg, k) : k \in TranslationKeys}
          ELSE /\ message[1] = PortugueseHeadline(result)
               /\ recommendation = PortugueseRecommendation(result)

\* C8 amended: only getRecommendation takes a translator: with one it
\* returns t('analise_recomendacao_normal') for 'normal' and
\* t('analise_recomendacao_urgente') otherwise, without one its hardcoded
\* Portuguese text; getPredictionMessage takes no translator and always
\* returns its hardcoded Portuguese text chosen by the prediction class.
C8_OnlyRecommendationTranslates ==
    shown =>
        /\ message[1] = PortugueseHeadline(result)
        /\ recommendation =
             IF tArg = "none" THEN PortugueseRecommendation(result)
             ELSE IF result.prediction = "normal"
               THEN Translate(tArg, "analise_recomendacao_normal")
               ELSE Translate(tArg, "analise_recomendacao_urgente")

C8_Witness ==
    /\ shown
    /\ tArg = "en"
    /\ result.prediction = "catarata"
    /\ recommendation = <<"Please see an ophthalmologist.">>

\* C9: every kind of failed attempt is retried alike: a failed attempt with
\* attempts remaining is followed by the backoff and then a further attempt,
\* whatever its error; every attempt encodes the image again; and when all
\* attempts of a call with maxRetries = n >= 1 fail there were exactly n
\* attempts and n - 1 backoff waits.
C9_RetryEveryFailure ==
    /\ nEncodes = nAttempts
    /\ \A i \in DOMAIN attemptLog :
         (~attemptLog[i].ok /\ i < maxRetries) =>
            /\ nBackoffs >= i
            /\ \/ pc = "backoff" /\ attempt = i
               \/ pc = "loop" /\ attempt = i + 1
               \/ Len(startLog) > i
    /\ (pc = "thrown" /\ maxRetries >= 1) =>
         /\ nAttempts = maxRetries
         /\ nEncodes = maxRetries
         /\ nBackoffs = maxRetries - 1

C9_Witness ==
    /\ pc = "thrown"
    /\ maxRetries = 3
    /\ attemptLog[1].err.kind = "Error"
    /\ attemptLog[2].err.kind = "TypeError"
    /\ attemptLog[3].err.kind = "ApiError"
    /\ attemptLog[3].err.status = 404
    /\ nBackoffs = 2

\* C10: with maxRetries <= 0 no attempt is made (no encoding, no POST, no
\* backoff) and the call fails with the generic error; the generic error is
\* thrown in no other case, save a last attempt that failed with a falsy
\* value.
C10_GenericErrorOnlyWithoutAttempts ==
    /\ (pc # "idle" /\ maxRetries <= 0) =>
         /\ pc \in {"loop", "thrown"}
         /\ nAttempts = 0 /\ nEncodes = 0 /\ nPosts = 0
         /\ nBackoffs = 0 /\ elapsed = 0 /\ timer = 0
    /\ (pc = "thrown" /\ maxRetries <= 0) => thrown = TheGenericError
    /\ (pc = "thrown" /\ thrown = TheGenericError) =>
         \/ maxRetries <= 0
         \/ /\ Len(attemptLog) > 0
            /\ attemptLog[Len(attemptLog)].err.kind = "undefined"

C10_Witness ==
    /\ pc = "thrown"
    /\ maxRetries < 0
    /\ thrown = TheGenericError
    /\ nAttempts = 0

====
